---- MODULE Spec2Model ----
(***************************************************************************)
(* Model of PMail's IMAP SEARCH criteria evaluator                         *)
(* (server/services/list/imap_search.go) and of the FETCH response writer  *)
(* (imap_server: Fetch, write, buildEnvelope, body-structure builders).    *)
(***************************************************************************)
EXTENDS Integers, Sequences, FiniteSets, TLC

VARIABLES
    userEmail,   \* store: the mailbox's user_email rows, in UID order
    email,       \* store: email.id -> email row (table "email")
    dbErr,       \* store: TRUE when the content lookup (Find) returns an error
    criteria,    \* SEARCH: the criteria pointer given to SearchEmails (<<>> is nil)
    pc,          \* position of the running command
    result,      \* SEARCH: value returned by SearchEmails
    outerBase,   \* SEARCH: base list read by the top-level call
    cur,         \* SEARCH: candidate list (local baseList) of the top-level call
    notIdx,      \* SEARCH: next NOT child of the top-level call
    orIdx,       \* SEARCH: next OR side of the top-level call (2*(pair-1)+side)
    resultUIDs,  \* SEARCH: applyOrCriteria's resultUIDs of the top-level call
    subBases,    \* SEARCH: base lists read by the recursive sub-evaluations
    uidNext,     \* store: the unique id the next delivered message gets
    changes,     \* store: changes other sessions made since the command started
    fetchBox,    \* FETCH: the selected mailbox's messages with their parsed content
    numSet,      \* FETCH: the number set of the request
    options,     \* FETCH: the fetch options of the request
    out          \* FETCH: calls made on the fetch writer and on the store

vars == <<userEmail, email, dbErr, criteria, pc, result, outerBase, cur, notIdx,
          orIdx, resultUIDs, subBases, uidNext, changes, fetchBox, numSet,
          options, out>>

storeVars == <<userEmail, email, dbErr, uidNext, changes>>
searchVars == <<criteria, result, outerBase, cur, notIdx, orIdx, resultUIDs, subBases>>
fetchVars == <<fetchBox, numSet, options, out>>

\* ---------------------------------------------------------------- bounds
MaxUID == 3        \* unique ids are 1..MaxUID
MaxNot == 1        \* NOT children per criteria node
MaxOr == 2         \* OR pairs per criteria node
MaxDay == 3        \* calendar days are 1..MaxDay (day 0 holds the zero time)
MaxChanges == 1    \* changes other sessions make to the mailbox during one SEARCH
MaxAtt == 2        \* attachments per message
MaxSections == 3   \* body sections per FETCH
MaxFields == 2     \* header field names per header section
MaxSize == 3       \* message sizes and size bounds are 0..MaxSize

\* ---------------------------------------------------------------- helpers
SeqsUpTo(S, n) == UNION {[1..k -> S] : k \in 0..n}

RECURSIVE SeqToSet(_)
SeqToSet(s) == IF s = <<>> THEN {} ELSE {Head(s)} \cup SeqToSet(Tail(s))

\* ---------------------------------------------------------------- time.Time
\* A time is a calendar day and an hour of day in a location (UTC offset, hours).
Time(d, h, o) == [day |-> d, hour |-> h, off |-> o]
ZeroTime == Time(0, 0, 0)
Instant(t) == t.day * 24 + t.hour - t.off
IsZero(t) == Instant(t) = 0
TimeBefore(t, u) == Instant(t) < Instant(u)

truncateToDate(t) == Time(t.day, 0, t.off)

\* ---------------------------------------------------------------- strings
\* A string is a sequence of characters.
ToLowerChar(c) ==
    CASE c = "A" -> "a" [] c = "B" -> "b" [] c = "I" -> "i" [] c = "N" -> "n"
      [] c = "V" -> "v" [] c = "S" -> "s" [] c = "U" -> "u" [] c = "J" -> "j"
      [] c = "E" -> "e" [] c = "C" -> "c" [] c = "T" -> "t" [] c = "H" -> "h"
      [] OTHER -> c
ToLower(s) == [i \in 1..Len(s) |-> ToLowerChar(s[i])]
Contains(s, sub) ==
    \E i \in 0..(Len(s) - Len(sub)) : SubSeq(s, i + 1, i + Len(sub)) = sub

\* ---------------------------------------------------------------- criteria
EmptyCriteria ==
    [UID |-> <<>>, SeqNum |-> <<>>,
     Since |-> ZeroTime, Before |-> ZeroTime,
     SentSince |-> ZeroTime, SentBefore |-> ZeroTime,
     Header |-> <<>>, Body |-> <<>>, Text |-> <<>>,
     Flag |-> <<>>, NotFlag |-> <<>>,
     Larger |-> 0, Smaller |-> 0,
     Not |-> <<>>, Or |-> <<>>]

\* imap.NumSet.Contains: a set is a list of ranges.
NumSetContains(set, n) == \E i \in 1..Len(set) : set[i].Start <= n /\ n <= set[i].Stop

\* ---------------------------------------------------------------- store
Store == [userEmail |-> userEmail, email |-> email, dbErr |-> dbErr]

\* The mailbox's visible messages in order, numbered 1..N.
GetUEListByUID(st) ==
    [i \in 1..Len(st.userEmail) |->
        [ID |-> st.userEmail[i].ID,
         SerialNumber |-> i,
         EmailID |-> st.userEmail[i].EmailID,
         IsRead |-> st.userEmail[i].IsRead,
         Status |-> st.userEmail[i].Status]]

\* ---------------------------------------------------------------- SEARCH
isEmptyCriteria(c) ==
    /\ Len(c.UID) = 0
    /\ Len(c.SeqNum) = 0
    /\ IsZero(c.Since)
    /\ IsZero(c.Before)
    /\ IsZero(c.SentSince)
    /\ IsZero(c.SentBefore)
    /\ Len(c.Header) = 0
    /\ Len(c.Body) = 0
    /\ Len(c.Text) = 0
    /\ Len(c.Flag) = 0
    /\ Len(c.NotFlag) = 0
    /\ c.Larger = 0
    /\ c.Smaller = 0
    /\ Len(c.Not) = 0
    /\ Len(c.Or) = 0

needsEmailData(c) ==
    \/ ~IsZero(c.Since)
    \/ ~IsZero(c.Before)
    \/ ~IsZero(c.SentSince)
    \/ ~IsZero(c.SentBefore)
    \/ Len(c.Header) > 0
    \/ Len(c.Body) > 0
    \/ Len(c.Text) > 0
    \/ c.Larger > 0
    \/ c.Smaller > 0

filterByUIDSets(list, uidSets) ==
    SelectSeq(list, LAMBDA item :
        \E k \in 1..Len(uidSets) : NumSetContains(uidSets[k], item.ID))

filterBySeqNumSets(list, seqSets) ==
    SelectSeq(list, LAMBDA item :
        \E k \in 1..Len(seqSets) : NumSetContains(seqSets[k], item.SerialNumber))

hasFlag(item, flag) ==
    CASE flag = "Seen" -> item.IsRead = 1
      [] flag = "Deleted" -> item.Status = 3
      [] flag = "Draft" -> item.Status = 4
      [] flag = "Junk" -> item.Status = 5
      [] OTHER -> FALSE

filterByFlags(list, flags, notFlags) ==
    SelectSeq(list, LAMBDA item :
        /\ \A k \in 1..Len(flags) : hasFlag(item, flags[k])
        /\ \A k \in 1..Len(notFlags) : ~hasFlag(item, notFlags[k]))

matchesHeader(e, key0, value0) ==
    LET key == ToLower(key0)
        value == ToLower(value0)
    IN CASE key = <<"s", "u", "b", "j", "e", "c", "t">> ->
                Contains(ToLower(e.Subject), value)
         [] key = <<"f", "r", "o", "m">> ->
                Contains(ToLower(e.FromAddress), value)
                    \/ Contains(ToLower(e.FromName), value)
         [] key = <<"t", "o">> -> Contains(ToLower(e.To), value)
         [] key = <<"c", "c">> -> Contains(ToLower(e.Cc), value)
         [] key = <<"b", "c", "c">> -> Contains(ToLower(e.Bcc), value)
         [] key = <<"r", "e", "p", "l", "y", "-", "t", "o">> ->
                Contains(ToLower(e.ReplyTo), value)
         [] key = <<"s", "e", "n", "d", "e", "r">> ->
                Contains(ToLower(e.Sender), value)
         [] OTHER -> FALSE

matchesBody(e, pattern0) ==
    LET pattern == ToLower(pattern0)
    IN \/ e.Text.Valid /\ Contains(ToLower(e.Text.String), pattern)
       \/ e.Html.Valid /\ Contains(ToLower(e.Html.String), pattern)

matchesText(e, pattern0) ==
    LET pattern == ToLower(pattern0)
    IN \/ Contains(ToLower(e.Subject), pattern)
       \/ Contains(ToLower(e.FromAddress), pattern)
       \/ Contains(ToLower(e.FromName), pattern)
       \/ Contains(ToLower(e.To), pattern)
       \/ Contains(ToLower(e.Cc), pattern)
       \/ Contains(ToLower(e.Bcc), pattern)
       \/ matchesBody(e, pattern)

matchesEmailCriteria(e, c) ==
    /\ ~IsZero(c.Since) => ~TimeBefore(e.CreateTime, truncateToDate(c.Since))
    /\ ~IsZero(c.Before) => TimeBefore(e.CreateTime, truncateToDate(c.Before))
    /\ ~IsZero(c.SentSince) => ~TimeBefore(e.SendDate, truncateToDate(c.SentSince))
    /\ ~IsZero(c.SentBefore) => TimeBefore(e.SendDate, truncateToDate(c.SentBefore))
    /\ c.Larger > 0 => ~(e.Size <= c.Larger)
    /\ c.Smaller > 0 => ~(e.Size >= c.Smaller)
    /\ \A k \in 1..Len(c.Header) : matchesHeader(e, c.Header[k].Key, c.Header[k].Value)
    /\ \A k \in 1..Len(c.Body) : matchesBody(e, c.Body[k])
    /\ \A k \in 1..Len(c.Text) : matchesText(e, c.Text[k])

\* filterWithEmailData returning no candidate, instead of the list it was given, when
\* the lookup fails (line 247).
filterWithEmailDataFailsClosed(st, list, c) ==
    IF Len(list) = 0 THEN list
    ELSE IF st.dbErr THEN <<>>
    ELSE SelectSeq(list, LAMBDA item :
             /\ item.EmailID \in DOMAIN st.email
             /\ matchesEmailCriteria(st.email[item.EmailID], c))

\* Lines 229-270. The lookup of the candidates' email rows fails when st.dbErr.
filterWithEmailData(st, list, c) ==
    IF Len(list) = 0 THEN list
    ELSE IF st.dbErr THEN list
    ELSE SelectSeq(list, LAMBDA item :
             /\ item.EmailID \in DOMAIN st.email
             /\ matchesEmailCriteria(st.email[item.EmailID], c))

\* The passes of SearchEmails over the node's own fields, lines 83-101.
PassUID(list, c) ==
    IF Len(c.UID) > 0 THEN filterByUIDSets(list, c.UID) ELSE list
PassSeqNum(list, c) ==
    IF Len(c.SeqNum) > 0 THEN filterBySeqNumSets(list, c.SeqNum) ELSE list
PassEmailData(st, list, c) ==
    IF needsEmailData(c) THEN filterWithEmailData(st, list, c) ELSE list
PassFlags(list, c) ==
    IF Len(c.Flag) > 0 \/ Len(c.NotFlag) > 0
    THEN filterByFlags(list, c.Flag, c.NotFlag) ELSE list

OwnPasses(st, baseList, c) ==
    PassFlags(PassEmailData(st, PassSeqNum(PassUID(baseList, c), c), c), c)

\* Content lookups (db Find calls) the own passes make: one when the data pass runs
\* on a non-empty candidate list.
OwnLookups(baseList, c) ==
    IF needsEmailData(c) /\ Len(PassSeqNum(PassUID(baseList, c), c)) > 0 THEN 1 ELSE 0

RECURSIVE SearchEmails(_, _)
RECURSIVE applyNotCriteria(_, _, _)
RECURSIVE applyOrCriteria(_, _, _)
RECURSIVE NotLoop(_, _, _)
RECURSIVE OrLoop(_, _, _, _)

IDsOf(list) == {list[i].ID : i \in 1..Len(list)}

\* applyNotCriteria with the test of line 425 inverted: the matched items are kept.
applyNotCriteriaKeepsMatched(st, list, notCriteria) ==
    LET matchedUIDs == IDsOf(SearchEmails(st, <<notCriteria>>))
    IN SelectSeq(list, LAMBDA item : item.ID \in matchedUIDs)

applyNotCriteria(st, list, notCriteria) ==
    LET matchedUIDs == IDsOf(SearchEmails(st, <<notCriteria>>))
    IN SelectSeq(list, LAMBDA item : item.ID \notin matchedUIDs)

\* The loop of SearchEmails over criteria.Not (lines 104-108).
NotLoop(st, list, nots) ==
    IF nots = <<>> THEN list
    ELSE NotLoop(st, applyNotCriteria(st, list, Head(nots)), Tail(nots))

\* One side of one OR pair (lines 450-455 and 458-463): resultUIDs afterwards.
OrSide(st, currentUIDs, uids, side) ==
    uids \cup (IDsOf(SearchEmails(st, <<side>>)) \cap currentUIDs)

\* The loop of applyOrCriteria over the pairs (lines 448-464): resultUIDs afterwards.
OrLoop(st, currentUIDs, uids, pairs) ==
    IF pairs = <<>> THEN uids
    ELSE OrLoop(st, currentUIDs,
                OrSide(st, currentUIDs,
                       OrSide(st, currentUIDs, uids, Head(pairs)[1]),
                       Head(pairs)[2]),
                Tail(pairs))

\* applyOrCriteria building its result from the match lists instead of from list.
RECURSIVE AppendMatches(_, _, _)
AppendMatches(st, currentUIDs, pairs) ==
    IF pairs = <<>> THEN <<>>
    ELSE SelectSeq(SearchEmails(st, <<Head(pairs)[1]>>),
                   LAMBDA item : item.ID \in currentUIDs)
         \o SelectSeq(SearchEmails(st, <<Head(pairs)[2]>>),
                      LAMBDA item : item.ID \in currentUIDs)
         \o AppendMatches(st, currentUIDs, Tail(pairs))
applyOrCriteriaAppendsMatches(st, list, orCriteria) ==
    IF Len(orCriteria) = 0 THEN list
    ELSE AppendMatches(st, IDsOf(list), orCriteria)

applyOrCriteria(st, list, orCriteria) ==
    IF Len(orCriteria) = 0 THEN list
    ELSE LET uids == OrLoop(st, IDsOf(list), {}, orCriteria)
         IN SelectSeq(list, LAMBDA item : item.ID \in uids)

\* Lines 103-108 and 110-113 of SearchEmails.
NotStage(st, list, c) ==
    IF Len(c.Not) > 0 THEN NotLoop(st, list, c.Not) ELSE list
OrStage(st, list, c) ==
    IF Len(c.Or) > 0 THEN applyOrCriteria(st, list, c.Or) ELSE list

\* SearchEmails returning nil instead of the base list at the early return of line 72.
SearchEmailsEmptyReturnsNil(st, crit) ==
    IF Len(GetUEListByUID(st)) = 0 THEN GetUEListByUID(st)
    ELSE IF crit = <<>> \/ isEmptyCriteria(crit[1]) THEN <<>>
    ELSE OrStage(st,
                 NotStage(st, OwnPasses(st, GetUEListByUID(st), crit[1]), crit[1]),
                 crit[1])

\* SearchEmails: the returned list (the returned error is always nil).
SearchEmails(st, crit) ==
    IF Len(GetUEListByUID(st)) = 0 THEN GetUEListByUID(st)
    ELSE IF crit = <<>> \/ isEmptyCriteria(crit[1]) THEN GetUEListByUID(st)
    ELSE OrStage(st,
                 NotStage(st, OwnPasses(st, GetUEListByUID(st), crit[1]), crit[1]),
                 crit[1])

\* The children SearchEmails recurses into: NOT children, then both sides of each pair.
RECURSIVE OrSides(_)
OrSides(pairs) ==
    IF pairs = <<>> THEN <<>> ELSE <<Head(pairs)[1], Head(pairs)[2]>> \o OrSides(Tail(pairs))
Children(c) == c.Not \o OrSides(c.Or)

\* Number of content lookups SearchEmails makes on the store, recursion included.
RECURSIVE ContentLookups(_, _)
RECURSIVE SumLookups(_, _)
SumLookups(st, kids) ==
    IF kids = <<>> THEN 0
    ELSE ContentLookups(st, <<Head(kids)>>) + SumLookups(st, Tail(kids))
ContentLookups(st, crit) ==
    IF Len(GetUEListByUID(st)) = 0 THEN 0
    ELSE IF crit = <<>> \/ isEmptyCriteria(crit[1]) THEN 0
    ELSE OwnLookups(GetUEListByUID(st), crit[1]) + SumLookups(st, Children(crit[1]))

\* ---------------------------------------------------------------- SEARCH inputs
Chars(a, b, c) == <<a, b, c>>
NoString == [Valid |-> FALSE, String |-> <<>>]

\* Message rows the bounded mailboxes are built from: user_email columns
\* (IsRead, Status), whether the email row exists, and the email columns.
ReadInvoice ==
    [IsRead |-> 1, Status |-> 0, stored |-> TRUE, Size |-> 1,
     CreateTime |-> Time(2, 10, 0), SendDate |-> Time(2, 9, 0),
     Subject |-> Chars("I", "n", "v"), FromAddress |-> <<"a">>, FromName |-> <<"A">>,
     To |-> <<"b">>, Cc |-> <<>>, Bcc |-> <<>>, ReplyTo |-> <<>>, Sender |-> <<>>,
     Text |-> [Valid |-> TRUE, String |-> <<"h", "i">>], Html |-> NoString]
UnreadDeleted ==
    [IsRead |-> 0, Status |-> 3, stored |-> TRUE, Size |-> 2,
     CreateTime |-> Time(3, 1, 0), SendDate |-> Time(1, 23, 0),
     Subject |-> <<"b">>, FromAddress |-> <<"b">>, FromName |-> <<>>,
     To |-> <<"a">>, Cc |-> <<"c">>, Bcc |-> <<>>, ReplyTo |-> <<>>, Sender |-> <<>>,
     Text |-> NoString, Html |-> [Valid |-> TRUE, String |-> <<"H", "v">>]]
UnreadOrphan ==
    [IsRead |-> 0, Status |-> 0, stored |-> FALSE, Size |-> 0,
     CreateTime |-> Time(1, 0, 0), SendDate |-> Time(1, 0, 0),
     Subject |-> <<>>, FromAddress |-> <<>>, FromName |-> <<>>,
     To |-> <<>>, Cc |-> <<>>, Bcc |-> <<>>, ReplyTo |-> <<>>, Sender |-> <<>>,
     Text |-> NoString, Html |-> NoString]
Profiles == {ReadInvoice, UnreadDeleted, UnreadOrphan}

EmailIDOf(uid) == uid + 100

SortedSeq(U) ==
    CHOOSE s \in [1..Cardinality(U) -> U] :
        \A i, j \in 1..Cardinality(U) : i < j => s[i] < s[j]

\* user_email rows of the messages U with rows p, in UID order.
UserEmailRows(U, p) ==
    LET s == SortedSeq(U)
    IN [i \in 1..Len(s) |->
           [ID |-> s[i], EmailID |-> EmailIDOf(s[i]),
            IsRead |-> p[s[i]].IsRead, Status |-> p[s[i]].Status]]

EmailRow(uid, row) ==
    [Id |-> EmailIDOf(uid), Size |-> row.Size,
     CreateTime |-> row.CreateTime, SendDate |-> row.SendDate,
     Subject |-> row.Subject, FromAddress |-> row.FromAddress,
     FromName |-> row.FromName, To |-> row.To, Cc |-> row.Cc, Bcc |-> row.Bcc,
     ReplyTo |-> row.ReplyTo, Sender |-> row.Sender,
     Text |-> row.Text, Html |-> row.Html]

EmailTable(U, p) ==
    LET ids == {EmailIDOf(u) : u \in {v \in U : p[v].stored}}
    IN [id \in ids |-> EmailRow(id - 100, p[id - 100])]

Range(a, b) == <<[Start |-> a, Stop |-> b]>>

cUID == [EmptyCriteria EXCEPT !.UID = <<Range(1, 2)>>]
cUIDTwoSets == [EmptyCriteria EXCEPT !.UID = <<Range(3, 3), Range(1, 1)>>]
cSeq == [EmptyCriteria EXCEPT !.SeqNum = <<Range(1, 1)>>]
cSeqFrom2 == [EmptyCriteria EXCEPT !.SeqNum = <<Range(2, MaxUID)>>]
cSeen == [EmptyCriteria EXCEPT !.Flag = <<"Seen">>]
cUnseen == [EmptyCriteria EXCEPT !.NotFlag = <<"Seen">>]
cDeleted == [EmptyCriteria EXCEPT !.Flag = <<"Deleted">>]
cAnswered == [EmptyCriteria EXCEPT !.Flag = <<"Answered">>]
cLarger == [EmptyCriteria EXCEPT !.Larger = 1]
cSmaller == [EmptyCriteria EXCEPT !.Smaller = 2]
cSince == [EmptyCriteria EXCEPT !.Since = Time(3, 0, 0)]
cSentBefore == [EmptyCriteria EXCEPT !.SentBefore = Time(2, 0, 0)]
cSubject ==
    [EmptyCriteria EXCEPT !.Header =
        <<[Key |-> <<"S", "u", "b", "j", "e", "c", "t">>, Value |-> Chars("I", "N", "V")]>>]
cUnknownHeader ==
    [EmptyCriteria EXCEPT !.Header = <<[Key |-> <<"x">>, Value |-> <<>>]>>]
cBody == [EmptyCriteria EXCEPT !.Body = <<<<"h">>>>]
cText == [EmptyCriteria EXCEPT !.Text = <<<<"B">>>>]
cSeenLarger == [EmptyCriteria EXCEPT !.Flag = <<"Seen">>, !.Larger = 1]

NotNode(c) == [EmptyCriteria EXCEPT !.Not = <<c>>]
OrNode(a, b) == [EmptyCriteria EXCEPT !.Or = <<<<a, b>>>>]

\* Criteria without NOT/OR children.
Leaves ==
    {EmptyCriteria, cUID, cUIDTwoSets, cSeq, cSeqFrom2, cSeen, cUnseen, cDeleted,
     cAnswered, cLarger, cSmaller, cSince, cSentBefore, cSubject, cUnknownHeader,
     cBody, cText, cSeenLarger}

\* Own fields of the composed nodes, their NOT children and their OR pairs.
TopBases == {EmptyCriteria, cSeqFrom2, cSmaller}
NotKids == {cSeen, cSubject, OrNode(cUID, cText)}
OrPairs == {<<cSeen, cSeq>>, <<cLarger, NotNode(cUID)>>}

Composed ==
    {[b EXCEPT !.Not = n, !.Or = o] :
        b \in TopBases, n \in SeqsUpTo(NotKids, MaxNot), o \in SeqsUpTo(OrPairs, MaxOr)}

CriteriaSet == Leaves \cup {NotNode(c) : c \in Leaves} \cup Composed

\* A criteria pointer: nil or a pointer to a criteria of the bounded set.
CriteriaPtrs == {<<>>} \cup {<<c>> : c \in CriteriaSet}

\* ---------------------------------------------------------------- SEARCH, one call
SearchIdle ==
    /\ result = [list |-> <<>>, err |-> "nil", finds |-> 0]
    /\ outerBase = <<>>
    /\ cur = <<>>
    /\ notIdx = 0
    /\ orIdx = 0
    /\ resultUIDs = {}
    /\ subBases = {}

FetchIdle ==
    /\ fetchBox = <<>>
    /\ numSet = <<>>
    /\ options = <<>>
    /\ out = <<>>

InitEval ==
    /\ \E U \in SUBSET (1..MaxUID) : \E p \in [U -> Profiles] :
          /\ userEmail = UserEmailRows(U, p)
          /\ email = EmailTable(U, p)
    /\ dbErr \in BOOLEAN
    /\ uidNext = MaxUID + 1
    /\ changes = 0
    /\ criteria \in CriteriaPtrs
    /\ pc = "start"
    /\ SearchIdle
    /\ FetchIdle

\* The SEARCH handler's call list.SearchEmails(ctx, mailbox, criteria), run to its end
\* with no other session touching the mailbox.
Evaluate ==
    /\ pc = "start"
    /\ result' = [list |-> SearchEmails(Store, criteria), err |-> "nil",
                  finds |-> ContentLookups(Store, criteria)]
    /\ outerBase' = GetUEListByUID(Store)
    /\ subBases' = IF Len(GetUEListByUID(Store)) = 0 \/ criteria = <<>>
                       \/ Len(Children(criteria[1])) = 0
                   THEN {} ELSE {GetUEListByUID(Store)}
    /\ pc' = "done"
    /\ UNCHANGED <<storeVars, criteria, cur, notIdx, orIdx, resultUIDs, fetchVars>>

NextEval == Evaluate
SpecEval == InitEval /\ [][NextEval]_vars


\* ---------------------------------------------------------------- SEARCH by date
\* One message with any timestamps, searched with one date criterion.
Hours == {0, 23}
Offsets == {-8, 0, 8}
TimeSet == {Time(d, h, o) : d \in 1..MaxDay, h \in Hours, o \in Offsets}

DateCriteria ==
    {[EmptyCriteria EXCEPT !.Since = t] : t \in TimeSet}
        \cup {[EmptyCriteria EXCEPT !.Before = t] : t \in TimeSet}
        \cup {[EmptyCriteria EXCEPT !.SentSince = t] : t \in TimeSet}
        \cup {[EmptyCriteria EXCEPT !.SentBefore = t] : t \in TimeSet}

InitDate ==
    /\ \E ct \in TimeSet, sd \in TimeSet :
          LET row == [ReadInvoice EXCEPT !.CreateTime = ct, !.SendDate = sd]
          IN /\ userEmail = UserEmailRows({1}, [u \in {1} |-> row])
             /\ email = EmailTable({1}, [u \in {1} |-> row])
    /\ dbErr = FALSE
    /\ uidNext = 2
    /\ changes = 0
    /\ criteria \in {<<c>> : c \in DateCriteria}
    /\ pc = "start"
    /\ SearchIdle
    /\ FetchIdle

NextDate == Evaluate
SpecDate == InitDate /\ [][NextDate]_vars

\* ---------------------------------------------------------------- SEARCH by size
\* SEARCH LARGER n / SMALLER n as the handler receives them: the bound in the Larger or
\* Smaller field of the criteria, alone or next to a flag filter.
LargerThan(n, seen) ==
    [EmptyCriteria EXCEPT !.Larger = n, !.Flag = IF seen THEN <<"Seen">> ELSE <<>>]
SmallerThan(n, seen) ==
    [EmptyCriteria EXCEPT !.Smaller = n, !.Flag = IF seen THEN <<"Seen">> ELSE <<>>]

SizeCriteria ==
    {LargerThan(n, f) : n \in 0..MaxSize, f \in BOOLEAN}
        \cup {SmallerThan(n, f) : n \in 0..MaxSize, f \in BOOLEAN}

InitSize ==
    /\ \E U \in SUBSET (1..2) : \E sz \in [U -> 0..MaxSize] :
          LET p == [u \in U |-> [ReadInvoice EXCEPT !.Size = sz[u]]]
          IN /\ userEmail = UserEmailRows(U, p)
             /\ email = EmailTable(U, p)
    /\ dbErr = FALSE
    /\ uidNext = 3
    /\ changes = 0
    /\ criteria \in {<<c>> : c \in SizeCriteria}
    /\ pc = "start"
    /\ SearchIdle
    /\ FetchIdle

NextSize == Evaluate
SpecSize == InitSize /\ [][NextSize]_vars

\* ---------------------------------------------------------------- SEARCH, stepwise
\* The same call with the store reads of its recursive sub-evaluations as separate
\* steps, so that other sessions' deliveries and expunges interleave with them.
ConcCriteria ==
    {[b EXCEPT !.Not = n, !.Or = o] :
        b \in {EmptyCriteria, cSmaller},
        n \in SeqsUpTo(NotKids, MaxNot), o \in SeqsUpTo(OrPairs, 1)}

ConcCriteriaPtrs == {<<>>} \cup {<<c>> : c \in ConcCriteria}

Max(S) == CHOOSE x \in S : \A y \in S : y <= x

InitConc ==
    /\ \E U \in SUBSET (1..MaxUID) : \E p \in [U -> Profiles] :
          /\ userEmail = UserEmailRows(U, p)
          /\ email = EmailTable(U, p)
          /\ uidNext = Max(U \cup {0}) + 1
    /\ dbErr = FALSE
    /\ changes = 0
    /\ criteria \in ConcCriteriaPtrs
    /\ pc = "start"
    /\ SearchIdle
    /\ FetchIdle

\* Where SearchEmails goes after its own passes or after a NOT child.
AfterNot(c, nextNot) ==
    IF nextNot <= Len(c.Not) THEN "not"
    ELSE IF Len(c.Or) > 0 THEN "or"
    ELSE "return"

\* Lines 65-101: the base list read, the early returns and the node's own passes.
SearchStart ==
    /\ pc = "start"
    /\ LET baseList == GetUEListByUID(Store)
       IN /\ outerBase' = baseList
          /\ IF Len(baseList) = 0 \/ criteria = <<>> \/ isEmptyCriteria(criteria[1])
             THEN /\ result' = [list |-> baseList, err |-> "nil", finds |-> 0]
                  /\ cur' = baseList
                  /\ pc' = "done"
             ELSE /\ cur' = OwnPasses(Store, baseList, criteria[1])
                  /\ result' = [result EXCEPT !.finds = OwnLookups(baseList, criteria[1])]
                  /\ pc' = AfterNot(criteria[1], 1)
    /\ notIdx' = 1
    /\ orIdx' = 1
    /\ resultUIDs' = {}
    /\ UNCHANGED <<storeVars, criteria, subBases, fetchVars>>

\* Lines 105-107: one NOT child; the recursive call reads the store as it is now.
SearchNot ==
    /\ pc = "not"
    /\ cur' = applyNotCriteria(Store, cur, criteria[1].Not[notIdx])
    /\ subBases' = subBases \cup {GetUEListByUID(Store)}
    /\ result' = [result EXCEPT !.finds =
                     @ + ContentLookups(Store, <<criteria[1].Not[notIdx]>>)]
    /\ notIdx' = notIdx + 1
    /\ pc' = AfterNot(criteria[1], notIdx + 1)
    /\ UNCHANGED <<storeVars, criteria, outerBase, orIdx, resultUIDs, fetchVars>>

\* Lines 448-464: one side of one OR pair; the recursive call reads the store as it is now.
SearchOrSide ==
    /\ pc = "or"
    /\ LET side == criteria[1].Or[(orIdx + 1) \div 2][2 - (orIdx % 2)]
       IN /\ resultUIDs' = OrSide(Store, IDsOf(cur), resultUIDs, side)
          /\ result' = [result EXCEPT !.finds = @ + ContentLookups(Store, <<side>>)]
    /\ subBases' = subBases \cup {GetUEListByUID(Store)}
    /\ orIdx' = orIdx + 1
    /\ pc' = IF orIdx + 1 > 2 * Len(criteria[1].Or) THEN "return" ELSE "or"
    /\ UNCHANGED <<storeVars, criteria, outerBase, cur, notIdx, fetchVars>>

\* Lines 466-474 and 115: the result is built from the candidate list.
SearchReturn ==
    /\ pc = "return"
    /\ result' = [result EXCEPT !.list =
                     IF Len(criteria[1].Or) > 0
                     THEN SelectSeq(cur, LAMBDA item : item.ID \in resultUIDs)
                     ELSE cur]
    /\ pc' = "done"
    /\ UNCHANGED <<storeVars, criteria, outerBase, cur, notIdx, orIdx, resultUIDs,
                   subBases, fetchVars>>

\* Another session's delivery into the mailbox: a new row with the next unique id.
Deliver ==
    /\ pc \notin {"start", "done"}
    /\ changes < MaxChanges
    /\ \E row \in Profiles :
          /\ userEmail' = Append(userEmail,
                [ID |-> uidNext, EmailID |-> EmailIDOf(uidNext),
                 IsRead |-> row.IsRead, Status |-> row.Status])
          /\ email' = IF row.stored
                      THEN [id \in DOMAIN email \cup {EmailIDOf(uidNext)} |->
                               IF id = EmailIDOf(uidNext) THEN EmailRow(uidNext, row)
                               ELSE email[id]]
                      ELSE email
    /\ uidNext' = uidNext + 1
    /\ changes' = changes + 1
    /\ UNCHANGED <<dbErr, pc, searchVars, fetchVars>>

\* Another session's expunge: a row leaves the mailbox, the later ones move up.
Expunge ==
    /\ pc \notin {"start", "done"}
    /\ changes < MaxChanges
    /\ \E i \in 1..Len(userEmail) :
          userEmail' = SubSeq(userEmail, 1, i - 1) \o SubSeq(userEmail, i + 1, Len(userEmail))
    /\ changes' = changes + 1
    /\ UNCHANGED <<email, dbErr, uidNext, pc, searchVars, fetchVars>>

NextConc ==
    \/ SearchStart
    \/ SearchNot
    \/ SearchOrSide
    \/ SearchReturn
    \/ Deliver
    \/ Expunge

SpecConc == InitConc /\ [][NextConc]_vars

\* ---------------------------------------------------------------- FETCH
\* A nil pointer or slice is <<>>, a pointer to v is <<v>>.
Nil == <<>>
Ptr(v) == <<v>>

RECURSIVE LastIndex(_, _)
LastIndex(s, ch) ==
    IF s = <<>> THEN -1
    ELSE IF s[Len(s)] = ch THEN Len(s) - 1
    ELSE LastIndex(SubSeq(s, 1, Len(s) - 1), ch)

RECURSIVE IndexByte(_, _)
IndexByte(s, ch) ==
    IF s = <<>> THEN -1
    ELSE IF Head(s) = ch THEN 0
    ELSE IF IndexByte(Tail(s), ch) < 0 THEN -1
    ELSE 1 + IndexByte(Tail(s), ch)

RECURSIVE Count(_, _)
Count(s, ch) ==
    IF s = <<>> THEN 0
    ELSE (IF Head(s) = ch THEN 1 ELSE 0) + Count(Tail(s), ch)

\* Address from a full address string split on its last "@".
SplitAddress(name, address) ==
    IF LastIndex(address, "@") >= 0
    THEN [Name |-> name,
          Mailbox |-> SubSeq(address, 1, LastIndex(address, "@")),
          Host |-> SubSeq(address, LastIndex(address, "@") + 2, Len(address))]
    ELSE [Name |-> name, Mailbox |-> address, Host |-> <<>>]

userToAddress(u) ==
    IF u = Nil THEN [Name |-> <<>>, Mailbox |-> <<>>, Host |-> <<>>]
    ELSE SplitAddress(u[1].Name, u[1].EmailAddress)

\* users is a list of user pointers; the result is nil when no address is kept.
usersToAddresses(users) ==
    IF Len(users) = 0 THEN Nil
    ELSE LET kept == SelectSeq(users, LAMBDA u : u # Nil /\ u[1].EmailAddress # <<>>)
         IN [i \in 1..Len(kept) |-> userToAddress(kept[i])]

buildEnvelope(e, traEmail) ==
    LET from == IF e.FromAddress # <<>>
                THEN <<SplitAddress(e.FromName, e.FromAddress)>>
                ELSE Nil
    IN [Date |-> e.CreateTime,
        Subject |-> e.Subject,
        From |-> from,
        Sender |-> IF traEmail.Sender # Nil /\ traEmail.Sender[1].EmailAddress # <<>>
                   THEN <<userToAddress(traEmail.Sender)>>
                   ELSE from,
        ReplyTo |-> IF Len(traEmail.ReplyTo) > 0
                    THEN usersToAddresses(traEmail.ReplyTo)
                    ELSE from,
        To |-> usersToAddresses(traEmail.To),
        Cc |-> usersToAddresses(traEmail.Cc),
        Bcc |-> usersToAddresses(traEmail.Bcc),
        MessageID |-> <<"<", e.Id, "@", "domain", ">">>]

bsTextPlain(size, numLines) ==
    [Kind |-> "single", Type |-> <<"text">>, Subtype |-> <<"plain">>,
     Encoding |-> "base64", Size |-> size, NumLines |-> numLines,
     Filename |-> <<>>, Disposition |-> ""]

bsTextHTML(size, numLines) ==
    [Kind |-> "single", Type |-> <<"text">>, Subtype |-> <<"html">>,
     Encoding |-> "base64", Size |-> size, NumLines |-> numLines,
     Filename |-> <<>>, Disposition |-> ""]

\* mimeType is a character sequence; the type splits at its first "/", if past index 0.
bsAttachment(filename, mimeType, size, encoding) ==
    [Kind |-> "single",
     Type |-> IF IndexByte(mimeType, "/") > 0
              THEN SubSeq(mimeType, 1, IndexByte(mimeType, "/"))
              ELSE <<"application">>,
     Subtype |-> IF IndexByte(mimeType, "/") > 0
                 THEN SubSeq(mimeType, IndexByte(mimeType, "/") + 2, Len(mimeType))
                 ELSE <<"octet-stream">>,
     Encoding |-> encoding, Size |-> size, NumLines |-> 0,
     Filename |-> filename, Disposition |-> "attachment"]

\* bsAlternative without the placeholder of lines 195-197.
bsAlternativeNoPlaceholder(text, html) ==
    [Kind |-> "multi", Subtype |-> <<"alternative">>,
     Children |-> text \o html,
     Extended |-> TRUE]

\* text and html are pointers to single parts.
bsAlternative(text, html) ==
    LET children == text \o html
    IN [Kind |-> "multi", Subtype |-> <<"alternative">>,
        Children |-> IF Len(children) = 0 THEN <<bsTextPlain(0, 0)>> ELSE children,
        Extended |-> TRUE]

bsMixedWithAttachments(alt, extend, atts) ==
    [Kind |-> "multi", Subtype |-> <<"mixed">>,
     Children |-> <<alt>> \o atts,
     Extended |-> extend]

\* Lines 234-253 of write: the body structure handed to WriteBodyStructure.
BodyStructureOf(traEmail, extended) ==
    LET html == IF Len(traEmail.HTML) > 0
                THEN Ptr(bsTextHTML(Len(traEmail.HTML), Count(traEmail.HTML, "\n") + 1))
                ELSE Nil
        text == IF Len(traEmail.Text) > 0
                THEN Ptr(bsTextPlain(Len(traEmail.Text), Count(traEmail.Text, "\n") + 1))
                ELSE Nil
        attrs == [i \in 1..Len(traEmail.Attachments) |->
                     bsAttachment(traEmail.Attachments[i].Filename,
                                  traEmail.Attachments[i].ContentType,
                                  Len(traEmail.Attachments[i].Content), "base64")]
    IN bsMixedWithAttachments(bsAlternative(text, html), extended, attrs)

ToLowerName(f) ==
    CASE f = "Date" -> "date" [] f = "Subject" -> "subject" [] f = "SUBJECT" -> "subject"
      [] f = "From" -> "from" [] f = "Sender" -> "sender" [] f = "Reply-To" -> "reply-to"
      [] f = "To" -> "to" [] f = "Cc" -> "cc" [] f = "Bcc" -> "bcc"
      [] f = "Message-ID" -> "message-id" [] f = "Content-Type" -> "content-type"
      [] f = "References" -> "references"
      [] OTHER -> f

\* mime.QEncoding.Encode("utf-8", s): s unchanged when it needs no encoding, else one
\* encoded word. "U+00E9" stands for a non-ASCII character (two bytes in UTF-8).
NeedsEncoding(s) == \E i \in 1..Len(s) : s[i] = "U+00E9"
QEncode(s) ==
    IF NeedsEncoding(s)
    THEN <<"=?utf-8?q?">>
             \o [i \in 1..Len(s) |->
                    IF s[i] = "U+00E9" THEN "=C3=A9"
                    ELSE IF s[i] = "=" THEN "=3D"
                    ELSE IF s[i] = "?" THEN "=3F"
                    ELSE IF s[i] = "_" THEN "=5F"
                    ELSE IF s[i] = " " THEN "_"
                    ELSE s[i]]
             \o <<"?=">>
    ELSE s

\* The header lines one requested field adds to the block (lines 287-337).
HeaderLines(field, e, traEmail) ==
    LET f == ToLowerName(field)
    IN CASE f = "date" -> <<[name |-> "Date", value |-> <<e.CreateTime>>]>>
         [] f = "subject" -> <<[name |-> "Subject", value |-> QEncode(e.Subject)]>>
         [] f = "from" ->
              IF e.FromName # <<>>
              THEN <<[name |-> "From", value |-> <<QEncode(e.FromName), e.FromAddress>>]>>
              ELSE <<[name |-> "From", value |-> <<e.FromAddress>>]>>
         [] f = "sender" ->
              IF e.FromName # <<>>
              THEN <<[name |-> "Sender", value |-> <<QEncode(e.FromName), e.FromAddress>>]>>
              ELSE <<[name |-> "Sender", value |-> <<e.FromAddress>>]>>
         [] f = "reply-to" ->
              IF Len(traEmail.ReplyTo) > 0 /\ traEmail.ReplyTo[1][1].EmailAddress # <<>>
              THEN IF traEmail.ReplyTo[1][1].Name # <<>>
                   THEN <<[name |-> "Reply-To",
                           value |-> <<QEncode(traEmail.ReplyTo[1][1].Name),
                                       traEmail.ReplyTo[1][1].EmailAddress>>]>>
                   ELSE <<[name |-> "Reply-To",
                           value |-> <<traEmail.ReplyTo[1][1].EmailAddress>>]>>
              ELSE <<>>
         [] f = "to" ->
              IF traEmail.ToString # <<>>
              THEN <<[name |-> "To", value |-> traEmail.ToString]>> ELSE <<>>
         [] f = "cc" ->
              IF Len(traEmail.Cc) > 0
              THEN <<[name |-> "Cc", value |-> traEmail.CcString]>> ELSE <<>>
         [] f = "bcc" ->
              IF Len(traEmail.Bcc) > 0
              THEN <<[name |-> "Bcc", value |-> traEmail.BccString]>> ELSE <<>>
         [] f = "message-id" ->
              <<[name |-> "Message-ID", value |-> <<"<", e.Id, "@", "domain", ">">>]>>
         [] f = "content-type" ->
              IF Len(traEmail.RawLines) >= 2
              THEN <<[name |-> "Content-Type",
                      value |-> <<traEmail.RawLines[1], traEmail.RawLines[2]>>]>>
              ELSE <<>>
         [] OTHER -> <<>>

DefaultHeaderFields ==
    <<"date", "subject", "from", "to", "cc", "message-id", "content-type">>

RECURSIVE HeaderLoop(_, _, _)
HeaderLoop(fields, e, traEmail) ==
    IF fields = <<>> THEN <<>>
    ELSE HeaderLines(Head(fields), e, traEmail) \o HeaderLoop(Tail(fields), e, traEmail)

BlankLine == [name |-> "", value |-> <<>>]

\* Lines 276-341: the synthesized header block, one element per line.
HeaderBlock(section, e, traEmail) ==
    HeaderLoop(IF Len(section.HeaderFields) = 0 THEN DefaultHeaderFields
               ELSE section.HeaderFields,
               e, traEmail)
        \o <<BlankLine>>

Event(op, id, arg) == [op |-> op, id |-> id, arg |-> arg]

\* One body section literal: opened with its size, written, closed.
BodySectionEvents(e, k, size, content) ==
    <<Event("WriteBodySection", e.SerialNumber, [section |-> k, size |-> size]),
      Event("BodyWrite", e.SerialNumber, content),
      Event("BodyClose", e.SerialNumber, k)>>

\* One turn of the loop with the else branch of lines 354-358 left out: nothing is
\* written for a part that does not exist.
SectionEventsSkipsMissingPart(e, traEmail, section, k) ==
    (IF ~section.Peek THEN <<Event("MakeRead", e.Id, TRUE)>> ELSE <<>>)
    \o (IF Len(section.HeaderFields) > 0 \/ section.Specifier = "HEADER"
        THEN BodySectionEvents(e, k, Len(HeaderBlock(section, e, traEmail)),
                               HeaderBlock(section, e, traEmail))
        ELSE IF section.Specifier = "" \/ section.Specifier = "TEXT"
        THEN IF Len(section.Part) >= 1
             THEN IF section.Part \in DOMAIN traEmail.Parts
                  THEN BodySectionEvents(e, k, Len(traEmail.Parts[section.Part]),
                                         traEmail.Parts[section.Part])
                  ELSE <<>>
             ELSE BodySectionEvents(e, k, Len(traEmail.RawLines), traEmail.RawLines)
        ELSE <<>>)

\* Lines 268-365: one turn of the loop over options.BodySection, for section number k.
SectionEvents(e, traEmail, section, k) ==
    (IF ~section.Peek THEN <<Event("MakeRead", e.Id, TRUE)>> ELSE <<>>)
    \o (IF Len(section.HeaderFields) > 0 \/ section.Specifier = "HEADER"
        THEN BodySectionEvents(e, k, Len(HeaderBlock(section, e, traEmail)),
                               HeaderBlock(section, e, traEmail))
        ELSE IF section.Specifier = "" \/ section.Specifier = "TEXT"
        THEN IF Len(section.Part) >= 1
             THEN IF section.Part \in DOMAIN traEmail.Parts
                  THEN BodySectionEvents(e, k, Len(traEmail.Parts[section.Part]),
                                         traEmail.Parts[section.Part])
                  ELSE <<Event("WriteBodySection", e.SerialNumber,
                               [section |-> k, size |-> 0]),
                         Event("BodyClose", e.SerialNumber, k)>>
             ELSE BodySectionEvents(e, k, Len(traEmail.RawLines), traEmail.RawLines)
        ELSE <<>>)

RECURSIVE SectionLoop(_, _, _, _)
SectionLoop(e, traEmail, sections, k) ==
    IF k > Len(sections) THEN <<>>
    ELSE SectionEvents(e, traEmail, sections[k], k)
             \o SectionLoop(e, traEmail, sections, k + 1)

\* Lines 223-366: what write does for one message.
WriteMessage(e, opts) ==
    <<Event("CreateMessage", e.SerialNumber, e.SerialNumber)>>
    \o (IF opts.UID THEN <<Event("WriteUID", e.SerialNumber, e.UeId)>> ELSE <<>>)
    \o (IF opts.Envelope
        THEN <<Event("WriteEnvelope", e.SerialNumber, buildEnvelope(e, e.tra))>>
        ELSE <<>>)
    \o (IF opts.BodyStructure # Nil
        THEN <<Event("WriteBodyStructure", e.SerialNumber,
                     BodyStructureOf(e.tra, opts.BodyStructure[1].Extended))>>
        ELSE <<>>)
    \o (IF opts.RFC822Size
        THEN <<Event("WriteRFC822Size", e.SerialNumber, Len(e.tra.RawLines))>>
        ELSE <<>>)
    \o (IF opts.Flags
        THEN <<Event("WriteFlags", e.SerialNumber,
                     IF e.IsRead = 1 THEN <<"Seen">> ELSE <<>>)>>
        ELSE <<>>)
    \o (IF opts.InternalDate
        THEN <<Event("WriteInternalDate", e.SerialNumber, e.CreateTime)>>
        ELSE <<>>)
    \o SectionLoop(e, e.tra, opts.BodySection, 1)
    \o <<Event("Close", e.SerialNumber, e.SerialNumber)>>

RECURSIVE write(_, _)
write(list, opts) ==
    IF list = <<>> THEN <<>>
    ELSE WriteMessage(Head(list), opts) \o write(Tail(list), opts)

\* The mailbox's messages whose sequence number (or unique id) lies in the range.
GetEmailListByGroup(mailbox, range, byUID) ==
    SelectSeq(mailbox, LAMBDA e :
        IF byUID THEN range.Start <= e.UeId /\ e.UeId <= range.Stop
        ELSE range.Start <= e.SerialNumber /\ e.SerialNumber <= range.Stop)

\* Fetch: one write per range of the number set.
RECURSIVE FetchRanges(_, _, _, _)
FetchRanges(mailbox, ranges, byUID, opts) ==
    IF ranges = <<>> THEN <<>>
    ELSE write(GetEmailListByGroup(mailbox, Head(ranges), byUID), opts)
             \o FetchRanges(mailbox, Tail(ranges), byUID, opts)

\* ---------------------------------------------------------------- FETCH inputs
User(name, address) == Ptr([Name |-> name, EmailAddress |-> address])
AddrAB == <<"a", "@", "b">>
AddrCD == <<"c", "@", "d">>

\* The i-th attachment: a PDF, or a file whose content type has no "/".
AttachmentNo(i) ==
    IF i % 2 = 1
    THEN [Filename |-> <<"f", i>>,
          ContentType |-> <<"a", "p", "p", "/", "p", "d", "f">>,
          Content |-> <<"x", "y">>]
    ELSE [Filename |-> <<"g", i>>, ContentType |-> <<"b", "i", "n">>, Content |-> <<>>]

Texts == {<<>>, <<"h", "\n", "i">>}
HTMLs == {<<>>, <<"<", "p", ">">>}

\* Header data of a message: the record's columns and the parsed address lists.
PlainHeaders ==
    [IsRead |-> 0, FromAddress |-> AddrAB, FromName |-> <<"A">>, Subject |-> <<"H", "i">>,
     Sender |-> Nil, ReplyTo |-> <<>>, To |-> <<User(<<>>, AddrCD)>>, Cc |-> <<>>,
     Bcc |-> <<>>, ToString |-> AddrCD, CcString |-> <<>>, BccString |-> <<>>]
FullHeaders ==
    [IsRead |-> 1, FromAddress |-> AddrAB, FromName |-> <<>>,
     Subject |-> <<"U+00E9", " ", "?">>,
     Sender |-> User(<<"S">>, AddrCD), ReplyTo |-> <<User(<<"R">>, AddrCD)>>,
     To |-> <<User(<<"T">>, AddrCD), User(<<>>, AddrAB)>>, Cc |-> <<User(<<>>, AddrCD)>>,
     Bcc |-> <<User(<<>>, AddrAB)>>, ToString |-> AddrCD \o <<",">> \o AddrAB,
     CcString |-> AddrCD, BccString |-> AddrAB]
BareHeaders ==
    [IsRead |-> 0, FromAddress |-> <<>>, FromName |-> <<>>, Subject |-> <<>>,
     Sender |-> User(<<"S">>, <<>>), ReplyTo |-> <<User(<<"R">>, <<>>)>>,
     To |-> <<>>, Cc |-> <<>>, Bcc |-> <<>>,
     ToString |-> <<>>, CcString |-> <<>>, BccString |-> <<>>]
\* A from address, and a sender and a reply-to entry that carry a name but no address.
NamesOnlyHeaders ==
    [IsRead |-> 0, FromAddress |-> AddrAB, FromName |-> <<"A">>, Subject |-> <<"H", "i">>,
     Sender |-> User(<<"S">>, <<>>), ReplyTo |-> <<User(<<"R">>, <<>>)>>,
     To |-> <<User(<<>>, AddrCD)>>, Cc |-> <<>>, Bcc |-> <<>>,
     ToString |-> AddrCD, CcString |-> <<>>, BccString |-> <<>>]
HeaderVariants == {PlainHeaders, FullHeaders, BareHeaders, NamesOnlyHeaders}

\* The message at position i of the mailbox, with the given bodies and headers.
FetchMessage(i, text, html, natt, h) ==
    [Id |-> 100 + i, UeId |-> 10 + i, SerialNumber |-> i, IsRead |-> h.IsRead,
     FromAddress |-> h.FromAddress, FromName |-> h.FromName, Subject |-> h.Subject,
     CreateTime |-> Time(2, 10, 8),
     tra |-> [HTML |-> html, Text |-> text,
              Attachments |-> [k \in 1..natt |-> AttachmentNo(k)],
              Sender |-> h.Sender, ReplyTo |-> h.ReplyTo, To |-> h.To, Cc |-> h.Cc,
              Bcc |-> h.Bcc, ToString |-> h.ToString, CcString |-> h.CcString,
              BccString |-> h.BccString,
              Parts |-> [path \in {<<1>>} \cup {<<1 + k>> : k \in 1..natt} |->
                            IF path = <<1>> THEN text ELSE AttachmentNo(path[1] - 1).Content],
              RawLines |-> <<"Content-Type: multipart/mixed;", " boundary=x", "">>
                               \o text \o html]]

FirstMessages ==
    {FetchMessage(1, t, h, n, PlainHeaders) : t \in Texts, h \in HTMLs, n \in 0..MaxAtt}
        \cup {FetchMessage(1, <<"h", "\n", "i">>, <<>>, 0, hv) : hv \in HeaderVariants}

FetchBoxes ==
    {<<m>> : m \in FirstMessages}
        \cup {<<m, FetchMessage(2, <<>>, <<"<", "p", ">">>, 1, FullHeaders)>> :
                 m \in FirstMessages}

Section(peek, specifier, fields, part) ==
    [Peek |-> peek, Specifier |-> specifier, HeaderFields |-> fields, Part |-> part]

SomeSections ==
    {Section(TRUE, "", <<>>, <<>>),
     Section(FALSE, "", <<>>, <<>>),
     Section(FALSE, "TEXT", <<>>, <<1>>),
     Section(FALSE, "", <<>>, <<9>>),
     Section(TRUE, "MIME", <<>>, <<1>>)}

FieldNames == {"SUBJECT", "from", "To", "bcc", "sender", "References"}

FetchOptions(uid, env, bs, size, flags, date, sections) ==
    [UID |-> uid, Envelope |-> env, BodyStructure |-> bs, RFC822Size |-> size,
     Flags |-> flags, InternalDate |-> date, BodySection |-> sections]

OptionsSet ==
    {FetchOptions(FALSE, FALSE, Nil, FALSE, FALSE, FALSE, ss) :
        ss \in SeqsUpTo(SomeSections, MaxSections)}
    \cup {FetchOptions(FALSE, FALSE, Nil, FALSE, FALSE, FALSE,
                       <<Section(p, "HEADER", fl, <<>>)>>) :
             p \in BOOLEAN, fl \in SeqsUpTo(FieldNames, MaxFields)}
    \cup {FetchOptions(b, b, bs, b, b, b, ss) :
             b \in BOOLEAN,
             bs \in {Nil, Ptr([Extended |-> FALSE]), Ptr([Extended |-> TRUE])},
             ss \in {<<>>, <<Section(FALSE, "", <<>>, <<>>)>>}}

NumSets ==
    {[byUID |-> FALSE, ranges |-> <<[Start |-> 1, Stop |-> 1]>>],
     [byUID |-> TRUE, ranges |-> <<[Start |-> 11, Stop |-> 12]>>],
     [byUID |-> FALSE, ranges |-> <<[Start |-> 2, Stop |-> 2], [Start |-> 1, Stop |-> 2]>>]}

InitFetch ==
    /\ userEmail = <<>>
    /\ email = <<>>
    /\ dbErr = FALSE
    /\ uidNext = 1
    /\ changes = 0
    /\ criteria = <<>>
    /\ pc = "start"
    /\ SearchIdle
    /\ fetchBox \in FetchBoxes
    /\ numSet = <<>>
    /\ options = <<>>
    /\ out = <<>>

\* The FETCH handler, lines 108-131, with every write it makes.
Fetch ==
    /\ pc = "start"
    /\ \E ns \in NumSets, opts \in OptionsSet :
          /\ numSet' = ns
          /\ options' = opts
          /\ out' = FetchRanges(fetchBox, ns.ranges, ns.byUID, opts)
    /\ pc' = "done"
    /\ UNCHANGED <<storeVars, searchVars, fetchBox>>

NextFetch == Fetch
SpecFetch == InitFetch /\ [][NextFetch]_vars

\* ---------------------------------------------------------------- SEARCH claims
RECURSIVE IsSubseq(_, _)
IsSubseq(a, b) ==
    IF a = <<>> THEN TRUE
    ELSE IF b = <<>> THEN FALSE
    ELSE IF Head(a) = Head(b) THEN IsSubseq(Tail(a), Tail(b))
    ELSE IsSubseq(a, Tail(b))

NoDuplicates(list) ==
    \A i, j \in 1..Len(list) : list[i].ID = list[j].ID => i = j

Done == pc = "done"

\* Unique ids matched by one OR pair: matches of side A union matches of side B.
PairMatches(pair) ==
    IDsOf(SearchEmails(Store, <<pair[1]>>)) \cup IDsOf(SearchEmails(Store, <<pair[2]>>))

\* The node's candidate set after all its filters other than the OR pairs.
CandidatesBeforeOr(c) == SearchEmails(Store, <<[c EXCEPT !.Or = <<>>]>>)

\* C1: with two or more OR pairs on the node, SearchEmails returns exactly the
\* candidates that lie in the intersection over all pairs of (matches of side A
\* union matches of side B).
C1_OrPairsIntersect ==
    (Done /\ criteria # <<>> /\ Len(criteria[1].Or) >= 2) =>
        LET c == criteria[1]
            inAll == {u \in 1..MaxUID : \A k \in 1..Len(c.Or) : u \in PairMatches(c.Or[k])}
        IN result.list = SelectSeq(CandidatesBeforeOr(c), LAMBDA item : item.ID \in inAll)

\* What the code computes for C1: the union over the pairs.
C1_OrPairsUnion ==
    (Done /\ criteria # <<>> /\ Len(criteria[1].Or) >= 2 /\ Len(userEmail) > 0) =>
        LET c == criteria[1]
            inAny == {u \in 1..MaxUID : \E k \in 1..Len(c.Or) : u \in PairMatches(c.Or[k])}
        IN result.list = SelectSeq(CandidatesBeforeOr(c), LAMBDA item : item.ID \in inAny)

\* A node with exactly one NOT child, which has no NOT/OR children, and no OR pair.
HasOneLeafNot(c) ==
    /\ Len(c.Not) = 1
    /\ Len(c.Or) = 0
    /\ c.Not[1] \in Leaves

IsPureNot(c) ==
    /\ HasOneLeafNot(c)
    /\ [c EXCEPT !.Not = <<>>] = EmptyCriteria

\* C4: on an unchanged mailbox and with no storage failure, the results of {Not: [c]}
\* and of c (c without NOT/OR children) are disjoint and together make up the base
\* list; the NOT child is evaluated on the original base list: a node with other
\* filters keeps its candidates minus the child's matches on the whole base list.
C4_NotComplement ==
    (Done /\ ~dbErr /\ changes = 0 /\ criteria # <<>> /\ HasOneLeafNot(criteria[1])) =>
        LET c == criteria[1]
            rc == SearchEmails(Store, <<c.Not[1]>>)
            own == SearchEmails(Store, <<[c EXCEPT !.Not = <<>>]>>)
        IN /\ result.list = SelectSeq(own, LAMBDA item : item.ID \notin IDsOf(rc))
           /\ subBases \subseteq {outerBase}
           /\ IsPureNot(c) =>
                /\ IDsOf(result.list) \cap IDsOf(rc) = {}
                /\ IDsOf(result.list) \cup IDsOf(rc) = IDsOf(outerBase)

C4_Witness ==
    /\ Done /\ ~dbErr /\ changes = 0 /\ criteria # <<>> /\ IsPureNot(criteria[1])
    /\ Len(outerBase) = MaxUID
    /\ Len(result.list) > 0
    /\ Len(result.list) < Len(outerBase)

\* C5: a nil criteria or a criteria with every field empty returns the base list
\* unchanged (same members, same order) without any content lookup on the store.
C5_EmptyIsIdentity ==
    (Done /\ criteria \in {<<>>, <<EmptyCriteria>>}) =>
        /\ result.list = GetUEListByUID(Store)
        /\ result.err = "nil"
        /\ result.finds = 0

C5_Witness ==
    /\ Done /\ criteria = <<EmptyCriteria>>
    /\ Len(result.list) = MaxUID

\* C6: the returned list is a subsequence of the base list: members of the base
\* list, none twice, in the base list's order.
C6_ResultIsSubsequence ==
    Done => /\ IsSubseq(result.list, outerBase)
            /\ NoDuplicates(result.list)

C6_Witness ==
    /\ Done /\ criteria # <<>>
    /\ Len(criteria[1].Or) > 0 /\ Len(criteria[1].Not) > 0
    /\ Len(outerBase) = MaxUID
    /\ Len(result.list) >= 2
    /\ Len(result.list) < Len(outerBase)


\* C3: every recursive sub-evaluation made for a NOT child or an OR side reads the
\* same base list (same messages, same sequence numbers) as the outer call.
C3_StableSnapshot == \A b \in subBases : b = outerBase

\* The stepwise call returns what the one-step call returns when no other session
\* changed the mailbox.
StepwiseAgreesWithEvaluate ==
    (Done /\ changes = 0) =>
        /\ result = [list |-> SearchEmails(Store, criteria), err |-> "nil",
                      finds |-> ContentLookups(Store, criteria)]
        /\ subBases \subseteq {outerBase}


\* The calendar-date reading of the four date filters: time of day and offset dropped.
CalendarDatePasses(c, e) ==
    /\ ~IsZero(c.Since) => e.CreateTime.day >= c.Since.day
    /\ ~IsZero(c.Before) => e.CreateTime.day < c.Before.day
    /\ ~IsZero(c.SentSince) => e.SendDate.day >= c.SentSince.day
    /\ ~IsZero(c.SentBefore) => e.SendDate.day < c.SentBefore.day

\* C10: the date filters compare calendar dates only: a message passes "since" exactly
\* when its calendar date is the criterion's date or later and "before" exactly when
\* its calendar date is strictly earlier, at any time of day and in any timezone.
C10_CalendarDates ==
    Done => (Len(result.list) = 1 <=> CalendarDatePasses(criteria[1], email[EmailIDOf(1)]))

SameZone(c, e) ==
    /\ ~IsZero(c.Since) => e.CreateTime.off = c.Since.off
    /\ ~IsZero(c.Before) => e.CreateTime.off = c.Before.off
    /\ ~IsZero(c.SentSince) => e.SendDate.off = c.SentSince.off
    /\ ~IsZero(c.SentBefore) => e.SendDate.off = c.SentBefore.off

\* What the code computes for C10: the calendar-date reading holds when the stored
\* timestamp and the criterion carry the same offset.
DateFiltersInOneZone ==
    (Done /\ SameZone(criteria[1], email[EmailIDOf(1)])) =>
        (Len(result.list) = 1 <=> CalendarDatePasses(criteria[1], email[EmailIDOf(1)]))


\* Sizes of the messages a finished SEARCH returned.
SurvivorSizes == {email[result.list[i].EmailID].Size : i \in 1..Len(result.list)}

\* C11: a message survives "larger than n" only if its size is > n and survives
\* "smaller than n" only if its size is < n, for every bound n of 0..MaxSize, n = 0
\* included; a message of exactly n bytes survives neither.
C11_SizeFiltersStrict ==
    Done => \A n \in 0..MaxSize, f \in BOOLEAN :
        /\ criteria[1] = LargerThan(n, f) => \A sz \in SurvivorSizes : sz > n
        /\ criteria[1] = SmallerThan(n, f) => \A sz \in SurvivorSizes : sz < n

\* What the code computes for C11: the bounds are strict, and exactly the messages
\* within the bound survive, for every bound from 1 up; a bound of 0 is no filter.
SizeFiltersStrictFromOne ==
    Done => \A n \in 1..MaxSize, f \in BOOLEAN :
        /\ criteria[1] = LargerThan(n, f) =>
              SurvivorSizes = {e.Size : e \in {email[id] : id \in DOMAIN email}} \cap (n + 1)..MaxSize
        /\ criteria[1] = SmallerThan(n, f) =>
              SurvivorSizes = {e.Size : e \in {email[id] : id \in DOMAIN email}} \cap 0..(n - 1)

SizeBoundZeroIsNoFilter ==
    (Done /\ criteria[1] = LargerThan(0, FALSE)) => result.list = outerBase


\* The data-predicate pass ran in the outer call of the finished SEARCH, on a
\* non-empty candidate list, and its content lookup failed.
DataPassFailed ==
    /\ Done
    /\ dbErr
    /\ criteria # <<>>
    /\ ~isEmptyCriteria(criteria[1])
    /\ needsEmailData(criteria[1])
    /\ Len(PassSeqNum(PassUID(outerBase, criteria[1]), criteria[1])) > 0

\* C12: when the content lookup of the data-predicate pass fails, the pass leaves the
\* candidates as the UID and sequence-number filters produced them, the flag, NOT and OR
\* passes are applied to them, and SearchEmails returns that list with no error.
C12_LookupFailureFailsOpen ==
    DataPassFailed =>
        LET c == criteria[1]
            afterSets == PassSeqNum(PassUID(outerBase, c), c)
        IN /\ PassEmailData(Store, afterSets, c) = afterSets
           /\ result.list = OrStage(Store, NotStage(Store, PassFlags(afterSets, c), c), c)
           /\ result.err = "nil"

\* The failed lookup kept a message that the predicates reject when the lookup works,
\* and a later pass (flags) was applied to the kept candidates.
C12_Witness ==
    /\ DataPassFailed
    /\ Len(criteria[1].Flag) > 0
    /\ Len(result.list) > 0
    /\ Len(result.list) < Len(PassSeqNum(PassUID(outerBase, criteria[1]), criteria[1]))
    /\ result.list # SearchEmails([Store EXCEPT !.dbErr = FALSE], criteria)


\* ---------------------------------------------------------------- FETCH claims
BoxMessages == {fetchBox[i] : i \in 1..Len(fetchBox)}
MsgBySerial(n) == CHOOSE m \in BoxMessages : m.SerialNumber = n
EventsAt(op) == {i \in 1..Len(out) : out[i].op = op}
CountFor(op, id) == Cardinality({i \in EventsAt(op) : out[i].id = id})
Fetched(m) == CountFor("CreateMessage", m.SerialNumber) > 0
NonPeekSections == {k \in 1..Len(options.BodySection) : ~options.BodySection[k].Peek}

\* C2: in one FETCH, the mark-as-read call is made at most once per message: exactly
\* once when some requested body section is non-peek, never when all are peek.
C2_MarkReadOncePerMessage ==
    Done => \A m \in BoxMessages :
        /\ CountFor("MakeRead", m.Id) <= 1
        /\ (Fetched(m) /\ NonPeekSections # {}) => CountFor("MakeRead", m.Id) = 1
        /\ NonPeekSections = {} => CountFor("MakeRead", m.Id) = 0

\* What the code does for C2: one call per non-peek section, each time the message is
\* written.
MarkReadPerSection ==
    Done => \A m \in BoxMessages :
        CountFor("MakeRead", m.Id)
            = Cardinality(NonPeekSections) * CountFor("CreateMessage", m.SerialNumber)

IsMultipart(bs, subtype) == bs.Kind = "multi" /\ bs.Subtype = subtype

\* C7: the written body structure has the "mixed" multipart at its root only when the
\* message has attachments (children: the alternative part, then one part per
\* attachment in order); without attachments the root is the alternative part.
C7_MixedOnlyWithAttachments ==
    Done => \A i \in EventsAt("WriteBodyStructure") :
        LET atts == MsgBySerial(out[i].id).tra.Attachments
            bs == out[i].arg
        IN IF Len(atts) >= 1
           THEN /\ IsMultipart(bs, <<"mixed">>)
                /\ Len(bs.Children) = 1 + Len(atts)
                /\ IsMultipart(bs.Children[1], <<"alternative">>)
                /\ \A k \in 1..Len(atts) :
                      /\ bs.Children[1 + k].Kind = "single"
                      /\ bs.Children[1 + k].Filename = atts[k].Filename
           ELSE IsMultipart(bs, <<"alternative">>)

\* What the code does for C7: the root is always the "mixed" multipart.
RootAlwaysMixed ==
    Done => \A i \in EventsAt("WriteBodyStructure") :
        LET atts == MsgBySerial(out[i].id).tra.Attachments
            bs == out[i].arg
        IN /\ IsMultipart(bs, <<"mixed">>)
           /\ Len(bs.Children) = 1 + Len(atts)
           /\ IsMultipart(bs.Children[1], <<"alternative">>)

RECURSIVE MultipartNodes(_)
MultipartNodes(bs) ==
    IF bs.Kind = "multi"
    THEN {bs} \cup UNION {MultipartNodes(bs.Children[k]) : k \in 1..Len(bs.Children)}
    ELSE {}

IsEmptyPlainText(part) ==
    /\ part.Kind = "single"
    /\ part.Type = <<"text">>
    /\ part.Subtype = <<"plain">>
    /\ part.Size = 0

\* C8: every multipart node of a written body structure has at least one child; with
\* neither text nor HTML the alternative part has exactly one child, an empty
\* text/plain part of size 0.
C8_MultipartNeverEmpty ==
    Done => \A i \in EventsAt("WriteBodyStructure") :
        LET tra == MsgBySerial(out[i].id).tra
            nodes == MultipartNodes(out[i].arg)
            alts == {n \in nodes : n.Subtype = <<"alternative">>}
        IN /\ \A n \in nodes : Len(n.Children) >= 1
           /\ Cardinality(alts) = 1
           /\ (Len(tra.Text) = 0 /\ Len(tra.HTML) = 0) =>
                 \A n \in alts : Len(n.Children) = 1 /\ IsEmptyPlainText(n.Children[1])

C8_Witness ==
    /\ Done
    /\ \E i \in EventsAt("WriteBodyStructure") :
          LET tra == MsgBySerial(out[i].id).tra
          IN Len(tra.Text) = 0 /\ Len(tra.HTML) = 0 /\ Len(tra.Attachments) = MaxAtt

FixedHeaderOrder ==
    <<"date", "subject", "from", "sender", "reply-to", "to", "cc", "bcc", "message-id",
      "content-type">>

IsHeaderSection(section) == Len(section.HeaderFields) > 0 \/ section.Specifier = "HEADER"

RequestedNames(section) ==
    IF Len(section.HeaderFields) = 0 THEN SeqToSet(FixedHeaderOrder)
    ELSE {ToLowerName(section.HeaderFields[k]) : k \in 1..Len(section.HeaderFields)}

\* Two header lines, two header blocks are the same: names first, then the values.
SameLine(a, b) == a.name = b.name /\ a.value = b.value
SameBlock(a, b) == Len(a) = Len(b) /\ \A k \in 1..Len(a) : SameLine(a[k], b[k])

RECURSIVE FixedOrderBlock(_, _, _)
FixedOrderBlock(names, requested, m) ==
    IF names = <<>> THEN <<BlankLine>>
    ELSE (IF Head(names) \in requested THEN HeaderLines(Head(names), m, m.tra) ELSE <<>>)
             \o FixedOrderBlock(Tail(names), requested, m)

\* C9: a header section's block is the fixed ordered list (date, subject, from, sender,
\* reply-to, to, cc, bcc, message-id, content-type) restricted to the requested fields,
\* in that order and each at most once; with no field list all ten are candidates; the
\* block ends with one blank line.
C9_HeaderBlockFixedOrder ==
    Done => \A i \in EventsAt("WriteBodySection") :
        LET section == options.BodySection[out[i].arg.section]
            m == MsgBySerial(out[i].id)
        IN IsHeaderSection(section) =>
              SameBlock(out[i + 1].arg,
                        FixedOrderBlock(FixedHeaderOrder, RequestedNames(section), m))

\* What holds of the code for C9: the block ends with one blank line, and it holds the
\* lines of requested fields only.
HeaderBlockInRequestOrder ==
    Done => \A i \in EventsAt("WriteBodySection") :
        LET section == options.BodySection[out[i].arg.section]
            m == MsgBySerial(out[i].id)
            block == out[i + 1].arg
        IN IsHeaderSection(section) =>
              /\ block[Len(block)].name = ""
              /\ \A k \in 1..(Len(block) - 1) : block[k].name # ""
              /\ Len(section.HeaderFields) > 0 =>
                    \A k \in 1..(Len(block) - 1) :
                        \E j \in 1..Len(section.HeaderFields) :
                            LET lines == HeaderLines(section.HeaderFields[j], m, m.tra)
                            IN Len(lines) = 1 /\ SameLine(lines[1], block[k])

\* The response unit opened at event i: its events run up to its Close.
UnitEnd(i) ==
    IF \E j \in (i + 1)..Len(out) : out[j].op = "Close"
    THEN CHOOSE j \in (i + 1)..Len(out) :
             out[j].op = "Close" /\ \A l \in (i + 1)..(j - 1) : out[l].op # "Close"
    ELSE 0

\* Positions, in the unit opened at i, where the body section of request number k opens.
SectionOpens(i, k) ==
    {j \in i..UnitEnd(i) : out[j].op = "WriteBodySection" /\ out[j].arg.section = k}

\* Requested sections with specifier none or text whose part path names no part of m.
UnresolvedSections(m) ==
    {k \in 1..Len(options.BodySection) :
        /\ options.BodySection[k].Specifier \in {"", "TEXT"}
        /\ Len(options.BodySection[k].HeaderFields) = 0
        /\ Len(options.BodySection[k].Part) >= 1
        /\ options.BodySection[k].Part \notin DOMAIN m.tra.Parts}

\* Sections of the branches of lines 275 and 346: header, none and text specifiers.
HasBranch(section) == IsHeaderSection(section) \/ section.Specifier \in {"", "TEXT"}

\* Messages the number set of the FETCH selects, once per range that holds them.
RECURSIVE SelectedCount(_)
SelectedCount(ranges) ==
    IF ranges = <<>> THEN 0
    ELSE Len(GetEmailListByGroup(fetchBox, Head(ranges), numSet.byUID))
             + SelectedCount(Tail(ranges))

NoExplicitSender(tra) == tra.Sender = Nil \/ tra.Sender[1].EmailAddress = <<>>
NoExplicitReplyTo(tra) ==
    \A k \in 1..Len(tra.ReplyTo) :
        tra.ReplyTo[k] = Nil \/ tra.ReplyTo[k][1].EmailAddress = <<>>

\* C14: the envelope's sender list is the from list when the parsed message has no
\* explicit sender address, and its reply-to list is the from list when the parsed
\* message has no explicit reply-to address (reply-to list empty, or no entry of it with
\* a non-empty address); otherwise they are the explicit addresses.
C14_EnvelopeDefaults ==
    Done => \A i \in EventsAt("WriteEnvelope") :
        LET tra == MsgBySerial(out[i].id).tra
            env == out[i].arg
        IN /\ env.Sender = IF NoExplicitSender(tra) THEN env.From
                           ELSE <<userToAddress(tra.Sender)>>
           /\ env.ReplyTo = IF NoExplicitReplyTo(tra) THEN env.From
                            ELSE usersToAddresses(tra.ReplyTo)

\* What the code computes for C14: the sender rule as stated; the reply-to list is the
\* from list only when the parsed reply-to list is empty, and is otherwise the entries
\* with an address, none when no entry has one.
EnvelopeReplyToDefaultsOnEmptyList ==
    Done => \A i \in EventsAt("WriteEnvelope") :
        LET tra == MsgBySerial(out[i].id).tra
            env == out[i].arg
        IN /\ env.Sender = IF NoExplicitSender(tra) THEN env.From
                           ELSE <<userToAddress(tra.Sender)>>
           /\ env.ReplyTo = IF Len(tra.ReplyTo) = 0 THEN env.From
                            ELSE usersToAddresses(tra.ReplyTo)
           /\ (Len(tra.ReplyTo) > 0 /\ NoExplicitReplyTo(tra)) => env.ReplyTo = Nil

\* Position of the BodyClose of section k that follows the opening at j, 0 if none.
CloseAfter(i, j, k) ==
    IF \E l \in (j + 1)..UnitEnd(i) : out[l].op = "BodyClose" /\ out[l].arg = k
    THEN CHOOSE l \in (j + 1)..UnitEnd(i) :
             /\ out[l].op = "BodyClose" /\ out[l].arg = k
             /\ \A l2 \in (j + 1)..(l - 1) : ~(out[l2].op = "BodyClose" /\ out[l2].arg = k)
    ELSE 0

\* In the unit opened at i, the sections K of the request are each written once and
\* closed, in request order, before the unit is closed.
SectionsWrittenInOrder(i, K) ==
    /\ UnitEnd(i) # 0
    /\ out[UnitEnd(i)].id = out[i].id
    /\ \A k \in K :
          /\ Cardinality(SectionOpens(i, k)) = 1
          /\ \A j \in SectionOpens(i, k) :
                /\ CloseAfter(i, j, k) # 0
                /\ CloseAfter(i, j, k) < UnitEnd(i)
                /\ \A k2 \in K : \A j2 \in SectionOpens(i, k2) :
                      k < k2 => CloseAfter(i, j, k) < j2

\* C15: for every message written and every body section of the request, whatever its
\* specifier and part path, exactly one body-section item is written and closed in the
\* message's response unit, in request order, and the unit is closed after all of them.
C15_EverySectionWritten ==
    Done => \A i \in EventsAt("CreateMessage") :
        SectionsWrittenInOrder(i, 1..Len(options.BodySection))

\* What the code does for C15: the sections with a header, none or text specifier are
\* written once each, in order; a section with a MIME specifier and no field list is
\* not written at all.
BranchSectionsWritten ==
    Done => \A i \in EventsAt("CreateMessage") :
        /\ SectionsWrittenInOrder(i, {k \in 1..Len(options.BodySection) :
                                         HasBranch(options.BodySection[k])})
        /\ \A k \in 1..Len(options.BodySection) :
              ~HasBranch(options.BodySection[k]) => SectionOpens(i, k) = {}

====
